---- MODULE Spec2Model ----
(***************************************************************************)
(* Inventory reservation and payment reconciliation of the NPS API.        *)
(*                                                                         *)
(* The tables of the store are the variables.  Every request handler is a  *)
(* process: it takes one step per statement it awaits on the store, so     *)
(* that two handlers interleave exactly where the code yields.  A          *)
(* prisma.$transaction block commits (or rolls back) in one step; the      *)
(* reads it made before its first write are a step of their own.           *)
(***************************************************************************)
EXTENDS Integers, Sequences, FiniteSets, Bags, TLC

(* ------------------------------ bounds -------------------------------- *)
MaxCarts == 2
MaxOrders == 2
MaxPayments == 2
MaxMovements == 2
MaxRequests == 6
MaxCartRequests == 4
MaxQty == 2
InitStock == 2
\* the clock moves in steps of TickMinutes, at least MaxTicks of them
TickMinutes == 15
MaxTicks == 2
MaxSweepRequests == 3

(* ------------------------- program constants -------------------------- *)
\* minutes; orders.service.js:183 and cart.service.js:101
OrderTTLMinutes == 15
CartTTLMinutes == 30

Workers == {1, 2}
Products == {1, 2}
Owners == {"U1", "U2"}
\* state_pol codes of the gateway; "104" stands for every code the switch
\* of processWebhook sends to its default branch
StatePols == {"4", "5", "6", "7", "104"}
\* payu_transaction_id: 0 is NULL (and a payload without transaction_id);
\* the gateway's id of a payment is written as the payment's own id
NoTx == 0

VARIABLES
  now,           \* the clock every `new Date()` reads, in minutes
  stock,         \* products.stock_quantity
  carts,         \* carts: sequence of rows, cart_id = index
  cartItems,     \* cart_items: sequence of rows, cart_item_id = index; a
                 \* deleted row keeps its place with live = FALSE
  reservations,  \* stock_reservations: bag of rows
  orders,        \* orders: sequence of rows, order_id = index; checkout_cart
                 \* is no column: it records the cart the checkout ordered
  orderItems,    \* order_items: bag of rows
  payments,      \* payments: sequence of rows, payment_id = index
  movements,     \* stock_movements: bag of rows (append-only log)
  procs,         \* per worker: the handler it runs, where, and its locals
  response,      \* the answer most recently given to a caller
  requests,      \* how many requests were taken up, where a specification
                 \* bounds their number
  mark           \* no part of the store: what a specification notes of the
                 \* request taken up last, to compare a later state with

db == <<stock, carts, cartItems, reservations, orders, orderItems, payments, movements>>
vars == <<now, stock, carts, cartItems, reservations, orders, orderItems, payments, movements,
          procs, response, requests, mark>>

(* ------------------------------ helpers ------------------------------- *)
RECURSIVE SumOver(_, _)
SumOver(f, S) ==
  IF S = {} THEN 0
  ELSE LET x == CHOOSE y \in S : TRUE IN f[x] + SumOver(f, S \ {x})

\* sum of the quantity column over the rows of a bag
QtySum(B) == SumOver([e \in DOMAIN B |-> B[e] * e.quantity], DOMAIN B)

\* the rows of bag B that lie in set S, with their multiplicities
Rows(B, S) == [e \in (S \cap DOMAIN B) |-> B[e]]

Idle(w) == procs[w].pc = "idle"
AllIdle == \A w \in Workers : Idle(w)
IdleProc == [pc |-> "idle", op |-> "none"]
\* the handler `op` of worker w returns or throws `result`
Reply(w, op, result) ==
  /\ procs' = [procs EXCEPT ![w] = IdleProc]
  /\ response' = [op |-> op, result |-> result]
Finish(w, result) == Reply(w, procs[w].op, result)
\* the handler moves on: the fields given are set, its other locals are kept
Goto(w, fields) ==
  /\ procs' = [procs EXCEPT ![w] = fields @@ procs[w]]
  /\ UNCHANGED response
At(w, pc) == procs[w].pc = pc
InFlight(pc) == Cardinality({w \in Workers : procs[w].pc = pc})

NoMark == [op |-> "none", owner |-> "none", product_id |-> 0, available |-> 0,
           held |-> 0, released |-> FALSE]

Init ==
  /\ now = 0
  /\ stock = [p \in Products |-> InitStock]
  /\ carts = <<>>
  /\ cartItems = <<>>
  /\ reservations = EmptyBag
  /\ orders = <<>>
  /\ orderItems = EmptyBag
  /\ payments = <<>>
  /\ movements = EmptyBag
  /\ procs = [w \in Workers |-> IdleProc]
  /\ response = [op |-> "none", result |-> "none"]
  /\ requests = 0
  /\ mark = NoMark

(* ============================ cart.service ============================ *)
ActiveCartsOf(owner) ==
  {c \in DOMAIN carts : carts[c].owner = owner /\ carts[c].status = "active"}

\* rows of stock_reservations of product p with expires_at > t
ActiveReservations(p, t) ==
  {r \in DOMAIN reservations : r.product_id = p /\ r.expires_at > t}

\* a count that sees no reservation
ReservedQuantity_none(p, t) == 0

\* product.stockReservations.reduce(...): the quantity held at time t
ReservedQuantity(p, t) == QtySum(Rows(reservations, ActiveReservations(p, t)))

\* cart_items rows (by cart_item_id) of a cart, for one product
ItemsOf(c, p) ==
  {i \in DOMAIN cartItems :
     cartItems[i].live /\ cartItems[i].cart_id = c /\ cartItems[i].product_id = p}

\* getOrCreateActiveCart, prisma.cart.findFirst: an active cart of the owner
\* when one exists (any of them when there are several: no orderBy), else
\* the handler goes on to create one
addItemToCart_findCart(w, owner, productId, quantity) ==
  /\ Idle(w)
  /\ Len(cartItems) + InFlight("add_createItem") < MaxCarts * Cardinality(Products)
  /\ LET start == [op |-> "addItemToCart", owner |-> owner,
                   product_id |-> productId, quantity |-> quantity]
     IN IF ActiveCartsOf(owner) # {}
        THEN \E c \in ActiveCartsOf(owner) :
               Goto(w, [pc |-> "add_product", cart_id |-> c] @@ start)
        ELSE /\ Len(carts) + InFlight("add_createCart") < MaxCarts
             /\ Goto(w, [pc |-> "add_createCart"] @@ start)
  /\ UNCHANGED <<now, db>>

\* getOrCreateActiveCart, prisma.cart.create
addItemToCart_createCart(w) ==
  /\ At(w, "add_createCart")
  /\ carts' = Append(carts, [owner |-> procs[w].owner, status |-> "active"])
  /\ Goto(w, [pc |-> "add_product", cart_id |-> Len(carts) + 1])
  /\ UNCHANGED <<now, stock, cartItems, reservations, orders, orderItems, payments, movements>>

\* prisma.product.findUnique selecting stock_quantity and the reservations
\* with expires_at > new Date()
addItemToCart_readProduct(w) ==
  /\ At(w, "add_product")
  /\ Goto(w, [pc |-> "add_item",
              stock_quantity |-> stock[procs[w].product_id],
              reservedQuantity |-> ReservedQuantity(procs[w].product_id, now)])
  /\ UNCHANGED <<now, db>>

\* prisma.cartItem.findFirst, then the stock check of either branch;
\* expiresAt is taken here (new Date(Date.now() + 30 min)).  A sum of zero or
\* less calls removeCartItem(userId, cart_item_id): the id arrives as guestId,
\* cartItemId is undefined, and cartItem.findUnique rejects a where without a
\* cart_item_id, so the handler throws.
addItemToCart_findItem(w) ==
  /\ At(w, "add_item")
  /\ LET me == procs[w]
         found == ItemsOf(me.cart_id, me.product_id)
     IN IF found # {}
        THEN \E i \in found :
               LET newQuantity == cartItems[i].quantity + me.quantity
                   availableStock ==
                     me.stock_quantity - me.reservedQuantity + cartItems[i].quantity
               IN IF newQuantity <= 0
                  THEN Finish(w, "Argument where needs cart_item_id")
                  ELSE IF newQuantity > availableStock
                  THEN Finish(w, "Insufficient stock")
                  ELSE Goto(w, [pc |-> "add_updateReservation", item |-> i,
                                newQuantity |-> newQuantity,
                                expiresAt |-> now + CartTTLMinutes])
        ELSE LET availableStock == me.stock_quantity - me.reservedQuantity
             IN IF me.quantity <= 0
                THEN Finish(w, "Quantity must be positive for new cart items")
                ELSE IF me.quantity > availableStock
                THEN Finish(w, "Insufficient stock")
                ELSE Goto(w, [pc |-> "add_createItem",
                              expiresAt |-> now + CartTTLMinutes])
  /\ UNCHANGED <<now, db>>

\* existing item: prisma.stockReservation.updateMany on the rows of
\* (cart, product) with expires_at > new Date(); the call, and with it the
\* new Date() of its filter, is made in the turn that took expiresAt
addItemToCart_updateReservation(w) ==
  /\ At(w, "add_updateReservation")
  /\ LET me == procs[w]
         hit == {r \in DOMAIN reservations :
                   /\ r.cart_id = me.cart_id
                   /\ r.product_id = me.product_id
                   /\ r.expires_at > me.expiresAt - CartTTLMinutes}
         n == BagCardinality(Rows(reservations, hit))
         row == [cart_id |-> me.cart_id, product_id |-> me.product_id,
                 quantity |-> me.newQuantity, expires_at |-> me.expiresAt]
     IN reservations' =
          IF n = 0 THEN reservations
          ELSE (reservations (-) Rows(reservations, hit)) (+) [x \in {row} |-> n]
  /\ Goto(w, [pc |-> "add_updateItem"])
  /\ UNCHANGED <<now, stock, carts, cartItems, orders, orderItems, payments, movements>>

\* existing item: prisma.cartItem.update by cart_item_id
addItemToCart_updateItem(w) ==
  /\ At(w, "add_updateItem")
  /\ LET me == procs[w]
     IN IF cartItems[me.item].live
        THEN /\ cartItems' = [cartItems EXCEPT ![me.item].quantity = me.newQuantity]
             /\ Finish(w, "ok")
        ELSE /\ UNCHANGED cartItems
             /\ Finish(w, "Record not found")
  /\ UNCHANGED <<now, stock, carts, reservations, orders, orderItems, payments, movements>>

\* new item: prisma.cartItem.create
addItemToCart_createItem(w) ==
  /\ At(w, "add_createItem")
  /\ LET me == procs[w]
     IN cartItems' = Append(cartItems, [cart_id |-> me.cart_id,
                                        product_id |-> me.product_id,
                                        quantity |-> me.quantity, live |-> TRUE])
  /\ Goto(w, [pc |-> "add_createReservation"])
  /\ UNCHANGED <<now, stock, carts, reservations, orders, orderItems, payments, movements>>

\* new item: prisma.stockReservation.create
addItemToCart_createReservation(w) ==
  /\ At(w, "add_createReservation")
  /\ LET me == procs[w]
     IN reservations' = reservations (+)
          SetToBag({[cart_id |-> me.cart_id, product_id |-> me.product_id,
                     quantity |-> me.quantity, expires_at |-> me.expiresAt]})
  /\ Finish(w, "ok")
  /\ UNCHANGED <<now, stock, carts, cartItems, orders, orderItems, payments, movements>>

\* the cart item a request names, when it is one the owner may touch: the
\* row exists, its cart is active and belongs to the caller
OwnItem(owner, cartItemId) ==
  /\ cartItemId \in DOMAIN cartItems
  /\ cartItems[cartItemId].live
  /\ carts[cartItems[cartItemId].cart_id].status = "active"
  /\ carts[cartItems[cartItemId].cart_id].owner = owner

\* updateCartItem: prisma.cartItem.findUnique with its cart and the product's
\* reservations not yet expired, the ownership checks and the stock check;
\* expiresAt is taken here
updateCartItem_findItem(w, owner, cartItemId, quantity) ==
  /\ Idle(w)
  /\ IF ~OwnItem(owner, cartItemId)
     THEN Reply(w, "updateCartItem", "Cart item not found")
     ELSE LET item == cartItems[cartItemId]
              availableStock == stock[item.product_id]
                                  - ReservedQuantity(item.product_id, now)
                                  + item.quantity
          IN IF quantity > availableStock
             THEN Reply(w, "updateCartItem", "Insufficient stock")
             ELSE Goto(w, [pc |-> "upd_item", op |-> "updateCartItem",
                           item |-> cartItemId, cart_id |-> item.cart_id,
                           product_id |-> item.product_id, quantity |-> quantity,
                           expiresAt |-> now + CartTTLMinutes])
  /\ UNCHANGED <<now, db>>

\* updateCartItem: prisma.cartItem.update; the updateMany that follows is
\* called, and the new Date() of its filter taken, when this one resolves
updateCartItem_updateItem(w) ==
  /\ At(w, "upd_item")
  /\ LET me == procs[w]
     IN IF cartItems[me.item].live
        THEN /\ cartItems' = [cartItems EXCEPT ![me.item].quantity = me.quantity]
             /\ Goto(w, [pc |-> "upd_reservation", filterTime |-> now])
        ELSE /\ UNCHANGED cartItems
             /\ Finish(w, "Record not found")
  /\ UNCHANGED <<now, stock, carts, reservations, orders, orderItems, payments, movements>>

\* updateCartItem: prisma.stockReservation.updateMany on the rows of (cart,
\* product) not yet expired
updateCartItem_updateReservation(w) ==
  /\ At(w, "upd_reservation")
  /\ LET me == procs[w]
         hit == {r \in DOMAIN reservations :
                   /\ r.cart_id = me.cart_id
                   /\ r.product_id = me.product_id
                   /\ r.expires_at > me.filterTime}
         n == BagCardinality(Rows(reservations, hit))
         row == [cart_id |-> me.cart_id, product_id |-> me.product_id,
                 quantity |-> me.quantity, expires_at |-> me.expiresAt]
     IN reservations' =
          IF n = 0 THEN reservations
          ELSE (reservations (-) Rows(reservations, hit)) (+) [x \in {row} |-> n]
  /\ Finish(w, "ok")
  /\ UNCHANGED <<now, stock, carts, cartItems, orders, orderItems, payments, movements>>

\* removeCartItem: prisma.cartItem.findUnique with its cart, and the
\* ownership checks
removeCartItem_findItem(w, owner, cartItemId) ==
  /\ Idle(w)
  /\ IF ~OwnItem(owner, cartItemId)
     THEN Reply(w, "removeCartItem", "Cart item not found")
     ELSE Goto(w, [pc |-> "rm_item", op |-> "removeCartItem", owner |-> owner,
                   item |-> cartItemId, cart_id |-> cartItems[cartItemId].cart_id,
                   product_id |-> cartItems[cartItemId].product_id])
  /\ UNCHANGED <<now, db>>

\* removeCartItem: prisma.cartItem.delete
removeCartItem_deleteItem(w) ==
  /\ At(w, "rm_item")
  /\ LET me == procs[w]
     IN IF cartItems[me.item].live
        THEN /\ cartItems' = [cartItems EXCEPT ![me.item].live = FALSE]
             /\ Goto(w, [pc |-> "rm_reservations"])
        ELSE /\ UNCHANGED cartItems
             /\ Finish(w, "Record not found")
  /\ UNCHANGED <<now, stock, carts, reservations, orders, orderItems, payments, movements>>

\* a removeCartItem that deleted the item only
removeCartItem_keepReservations(w) ==
  /\ At(w, "rm_reservations")
  /\ Finish(w, "ok")
  /\ UNCHANGED <<now, stock, carts, cartItems, reservations, orders, orderItems,
                 payments, movements>>

\* removeCartItem: prisma.stockReservation.deleteMany on the rows of (cart,
\* product), expired or not
removeCartItem_deleteReservations(w) ==
  /\ At(w, "rm_reservations")
  /\ LET me == procs[w]
     IN reservations' =
          Rows(reservations, {r \in DOMAIN reservations :
                                ~(r.cart_id = me.cart_id /\ r.product_id = me.product_id)})
  /\ Finish(w, "ok")
  /\ UNCHANGED <<now, stock, carts, cartItems, orders, orderItems, payments, movements>>

\* abandonCart: prisma.cart.findFirst of the owner's active cart
abandonCart_findCart(w, owner) ==
  /\ Idle(w)
  /\ IF ActiveCartsOf(owner) = {}
     THEN Reply(w, "abandonCart", "Active cart not found")
     ELSE \E c \in ActiveCartsOf(owner) :
            Goto(w, [pc |-> "ab_cart", op |-> "abandonCart", owner |-> owner,
                     cart_id |-> c])
  /\ UNCHANGED <<now, db>>

\* abandonCart: prisma.cart.update to status 'abandoned'
abandonCart_updateCart(w) ==
  /\ At(w, "ab_cart")
  /\ carts' = [carts EXCEPT ![procs[w].cart_id].status = "abandoned"]
  /\ Goto(w, [pc |-> "ab_reservations"])
  /\ UNCHANGED <<now, stock, cartItems, reservations, orders, orderItems, payments, movements>>

\* abandonCart: prisma.stockReservation.deleteMany on the rows of the cart
abandonCart_deleteReservations(w) ==
  /\ At(w, "ab_reservations")
  /\ reservations' =
       Rows(reservations, {r \in DOMAIN reservations : r.cart_id # procs[w].cart_id})
  /\ Finish(w, "ok")
  /\ UNCHANGED <<now, stock, carts, cartItems, orders, orderItems, payments, movements>>

(* =========================== orders.service =========================== *)
\* the rows of a cart in cart_item_id order, as <<product_id, quantity>> lines
RECURSIVE CartLines(_, _)
CartLines(c, from) ==
  IF from > Len(cartItems) THEN <<>>
  ELSE IF cartItems[from].live /\ cartItems[from].cart_id = c
       THEN <<[product_id |-> cartItems[from].product_id,
               quantity |-> cartItems[from].quantity]>> \o CartLines(c, from + 1)
       ELSE CartLines(c, from + 1)

\* the bag holding one row per element of a sequence of rows
RECURSIVE SeqToBag(_)
SeqToBag(rows) ==
  IF rows = <<>> THEN EmptyBag
  ELSE SetToBag({Head(rows)}) (+) SeqToBag(Tail(rows))

\* prisma.cart.findFirst with its items: the owner's active cart (any of
\* them when there are several); no cart or no items is 'Cart is empty'
createOrderFromCart_findCart(w, owner) ==
  /\ Idle(w)
  /\ Len(orders) + InFlight("co_check") + InFlight("co_transaction") < MaxOrders
  /\ LET start == [op |-> "createOrderFromCart", owner |-> owner]
     IN IF ActiveCartsOf(owner) = {}
        THEN Reply(w, "createOrderFromCart", "Cart is empty")
        ELSE \E c \in ActiveCartsOf(owner) :
               IF CartLines(c, 1) = <<>>
               THEN Reply(w, "createOrderFromCart", "Cart is empty")
               ELSE Goto(w, [pc |-> "co_check", cart_id |-> c,
                             todo |-> CartLines(c, 1), orderItems |-> <<>>] @@ start)
  /\ UNCHANGED <<now, db>>

\* one turn of the loop over cart.items: prisma.product.findUnique with the
\* reservations not yet expired, then the stock check
createOrderFromCart_checkItem(w) ==
  /\ At(w, "co_check")
  /\ LET me == procs[w]
         item == Head(me.todo)
         reservedQuantity == ReservedQuantity(item.product_id, now)
         availableStock == stock[item.product_id] - reservedQuantity
     IN IF item.quantity > availableStock
        THEN Finish(w, "Insufficient stock")
        ELSE Goto(w, [pc |-> IF Tail(me.todo) = <<>> THEN "co_transaction" ELSE "co_check",
                      todo |-> Tail(me.todo),
                      orderItems |-> Append(me.orderItems, item)])
  /\ UNCHANGED <<now, db>>

\* prisma.$transaction: order.create with its items, cart.update to
\* 'ordered', one stockReservation.create per line (15 minutes)
createOrderFromCart_transaction(w) ==
  /\ At(w, "co_transaction")
  /\ LET me == procs[w]
         order_id == Len(orders) + 1
         OrderItemRow(l) == [order_id |-> order_id, product_id |-> l.product_id,
                             quantity |-> l.quantity]
         ReservationRow(l) == [cart_id |-> me.cart_id, product_id |-> l.product_id,
                               quantity |-> l.quantity,
                               expires_at |-> now + OrderTTLMinutes]
     IN /\ orders' = Append(orders, [owner |-> me.owner, status |-> "pending",
                                    checkout_cart |-> me.cart_id])
        /\ orderItems' = orderItems (+) SeqToBag([i \in DOMAIN me.orderItems |-> OrderItemRow(me.orderItems[i])])
        /\ carts' = [carts EXCEPT ![me.cart_id].status = "ordered"]
        /\ reservations' = reservations (+) SeqToBag([i \in DOMAIN me.orderItems |-> ReservationRow(me.orderItems[i])])
  /\ Finish(w, "ok")
  /\ UNCHANGED <<now, stock, cartItems, payments, movements>>

\* a transaction that fails after its first write and keeps it
createOrderFromCart_partial(w) ==
  /\ At(w, "co_transaction")
  /\ orders' = Append(orders, [owner |-> procs[w].owner, status |-> "pending",
                               checkout_cart |-> procs[w].cart_id])
  /\ Finish(w, "Transaction failed")
  /\ UNCHANGED <<now, stock, carts, cartItems, reservations, orderItems, payments, movements>>

\* a turn of the loop whose product.findUnique finds the product missing,
\* inactive or hidden (the catalog is kept elsewhere): the handler throws
createOrderFromCart_unavailable(w) ==
  /\ At(w, "co_check")
  /\ Finish(w, "Product is no longer available")
  /\ UNCHANGED <<now, db>>

\* prisma.$transaction when one of its statements fails at the store: the
\* transaction rolls back and the handler throws
createOrderFromCart_rollback(w) ==
  /\ At(w, "co_transaction")
  /\ Finish(w, "Transaction failed")
  /\ UNCHANGED <<now, db>>

(* ========================== payments.service ========================== *)
\* a lookup that passes over the payments that failed
PaymentsOfOrder_live(o) ==
  {p \in DOMAIN payments : payments[p].order_id = o /\ payments[p].status # "error"}

PaymentsOfOrder(o) == {p \in DOMAIN payments : payments[p].order_id = o}

\* order.findUnique and payment.findFirst: 'Order not found', 'Order
\* already has a payment'; the order row is never rewritten in the fields
\* read here, so the two reads are one step
createPayment_check(w, order_id) ==
  /\ Idle(w)
  /\ Len(payments) + InFlight("cp_create") < MaxPayments
  /\ IF order_id \notin DOMAIN orders
     THEN Reply(w, "createPayment", "Order not found")
     ELSE IF PaymentsOfOrder(order_id) # {}
     THEN Reply(w, "createPayment", "Order already has a payment")
     ELSE Goto(w, [pc |-> "cp_create", op |-> "createPayment", order_id |-> order_id])
  /\ UNCHANGED <<now, db>>

\* prisma.payment.create with status 'pending'
createPayment_create(w) ==
  /\ At(w, "cp_create")
  /\ payments' = Append(payments, [order_id |-> procs[w].order_id,
                                   status |-> "pending",
                                   payu_transaction_id |-> NoTx])
  /\ Goto(w, [pc |-> "cp_gateway", payment_id |-> Len(payments) + 1])
  /\ UNCHANGED <<now, stock, carts, cartItems, reservations, orders, orderItems, movements>>

\* how the try block ends: "SUCCESS" is the branch that stores the
\* gateway's transactionId; "ERROR" is the catch branch, taken when the
\* request fails, when the gateway answers anything but SUCCESS, and when
\* building the request throws (line 150 reads `environment`, which this
\* module never declares)
GatewayOutcomes == {"SUCCESS", "ERROR"}

\* the try/catch around the gateway call and the payment.update of either
\* branch
createPayment_gateway(w) ==
  /\ At(w, "cp_gateway")
  /\ \E outcome \in GatewayOutcomes :
       LET id == procs[w].payment_id
       IN IF outcome = "SUCCESS"
          THEN /\ payments' = [payments EXCEPT ![id].payu_transaction_id = id]
               /\ Finish(w, "pending")
          ELSE /\ payments' = [payments EXCEPT ![id].status = "error"]
               /\ Finish(w, "Failed to create PayU transaction")
  /\ UNCHANGED <<now, stock, carts, cartItems, reservations, orders, orderItems, movements>>

\* a switch that never answers 'approved'
NewStatus_declined(state_pol) ==
  IF state_pol = "7" THEN "pending" ELSE "declined"

\* the switch on state_pol
NewStatus(state_pol) ==
  CASE state_pol = "4" -> "approved"
    [] state_pol \in {"6", "5"} -> "declined"
    [] state_pol = "7" -> "pending"
    [] OTHER -> "error"

\* "none" is orderStatusUpdate = null
OrderStatusUpdate(state_pol) ==
  CASE state_pol = "4" -> "paid"
    [] state_pol \in {"6", "5"} -> "cancelled"
    [] state_pol = "7" -> "none"
    [] OTHER -> "cancelled"

\* a lookup that takes any payment for the one asked for
MatchingPayments_any(transaction_id) == DOMAIN payments

\* payment.findFirst({where: {OR: [{payu_transaction_id: transaction_id}]}}):
\* with transaction_id undefined the OR holds no filter and matches no row
MatchingPayments(transaction_id) ==
  IF transaction_id = NoTx THEN {}
  ELSE {p \in DOMAIN payments : payments[p].payu_transaction_id = transaction_id}

\* the guard on the payload and the lookup of the payment with its order
processWebhook_findPayment(w, state_pol, transaction_id, reference_sale) ==
  /\ Idle(w)
  /\ BagCardinality(movements) < MaxMovements
  /\ IF transaction_id = NoTx /\ ~reference_sale
     THEN Reply(w, "processWebhook", "Event not processed")
     ELSE IF MatchingPayments(transaction_id) = {}
     THEN Reply(w, "processWebhook", "Payment not found")
     ELSE \E p \in MatchingPayments(transaction_id) :
            Goto(w, [pc |-> "wh_updatePayment", op |-> "processWebhook",
                     state_pol |-> state_pol, payment_id |-> p,
                     order_id |-> payments[p].order_id,
                     owner |-> orders[payments[p].order_id].owner,
                     seenStatus |-> payments[p].status])
  /\ UNCHANGED <<now, db>>

\* prisma.payment.update({data: {status: newStatus}}), outside the
\* transaction
processWebhook_updatePayment(w) ==
  /\ At(w, "wh_updatePayment")
  /\ payments' = [payments EXCEPT ![procs[w].payment_id].status = NewStatus(procs[w].state_pol)]
  /\ IF OrderStatusUpdate(procs[w].state_pol) = "none"
     THEN Finish(w, "Webhook processed successfully")
     ELSE Goto(w, [pc |-> "wh_updateOrder"])
  /\ UNCHANGED <<now, stock, carts, cartItems, reservations, orders, orderItems, movements>>

\* a transaction that has updated the order row holds its row lock until it
\* ends: another transaction's tx.order.update on that row waits
OrderLocked(o) ==
  \E v \in Workers : procs[v].pc = "wh_items" /\ procs[v].order_id = o

OrderedCartsOf(owner) ==
  {c \in DOMAIN carts : carts[c].owner = owner /\ carts[c].status = "ordered"}

\* tx.cart.findFirst for the order's owner with status 'ordered' (any of
\* them when there are several), then tx.stockReservation.deleteMany on it
ReleaseCart(owner, after) ==
  IF OrderedCartsOf(owner) = {}
  THEN after = reservations
  ELSE \E c \in OrderedCartsOf(owner) :
         after = Rows(reservations, {r \in DOMAIN reservations : r.cart_id # c})

\* the rows of order_items of an order
ItemsOfOrder(o) == Rows(orderItems, {i \in DOMAIN orderItems : i.order_id = o})

\* the transaction begins: tx.order.update, and for state_pol '4' the
\* tx.orderItem.findMany that reads each line's product.stock_quantity.  For
\* the other codes nothing else is read before the writes, and the
\* transaction commits in this step.
processWebhook_updateOrder(w) ==
  /\ At(w, "wh_updateOrder")
  /\ LET me == procs[w] IN
     /\ ~OrderLocked(me.order_id)
     /\ IF me.state_pol = "4"
        THEN /\ Goto(w, [pc |-> "wh_items", seenStock |-> stock])
             /\ UNCHANGED db
        ELSE /\ orders' = [orders EXCEPT ![me.order_id].status =
                                           OrderStatusUpdate(me.state_pol)]
             /\ IF me.state_pol \in {"6", "5"}
                THEN ReleaseCart(me.owner, reservations')
                ELSE UNCHANGED reservations
             /\ Finish(w, "Webhook processed successfully")
             /\ UNCHANGED <<stock, carts, cartItems, orderItems, payments, movements>>
  /\ UNCHANGED now

\* the exit movement tx.stockMovement.create writes for a line
OrderPaidMovement(i) ==
  [product_id |-> i.product_id, type |-> "exit", quantity |-> i.quantity,
   reason |-> [tag |-> "ORDER_PAID", order_id |-> i.order_id]]

\* what the lines of an order take from a product
OrderedQuantity(o, p) ==
  QtySum(Rows(orderItems, {i \in DOMAIN orderItems : i.order_id = o /\ i.product_id = p}))

\* state_pol '4': the loop over the lines (check against the quantity read,
\* decrement, movement), the release of the cart's reservations, and the
\* commit; a line that fails the check throws, and the transaction rolls
\* back with the order row as it was
processWebhook_items(w) ==
  /\ At(w, "wh_items")
  /\ LET me == procs[w]
         lines == ItemsOfOrder(me.order_id)
     IN IF \E i \in DOMAIN lines : i.quantity > me.seenStock[i.product_id]
        THEN /\ Finish(w, "Insufficient stock")
             /\ UNCHANGED db
        ELSE /\ stock' = [p \in Products |-> stock[p] - OrderedQuantity(me.order_id, p)]
             /\ movements' = movements (+)
                  [m \in {OrderPaidMovement(i) : i \in DOMAIN lines} |->
                     SumOver([i \in DOMAIN lines |->
                                IF OrderPaidMovement(i) = m THEN lines[i] ELSE 0],
                             DOMAIN lines)]
             /\ orders' = [orders EXCEPT ![me.order_id].status = "paid"]
             /\ ReleaseCart(me.owner, reservations')
             /\ Finish(w, "Webhook processed successfully")
             /\ UNCHANGED <<carts, cartItems, orderItems, payments>>
  /\ UNCHANGED now

(* ============================ stock.service =========================== *)
\* prisma.product.findUnique, and the check of an exit against the
\* stock_quantity just read
createStockMovement_readProduct(w, product_id, type, quantity) ==
  /\ Idle(w)
  /\ BagCardinality(movements) < MaxMovements
  /\ IF type = "exit" /\ quantity > stock[product_id]
     THEN Reply(w, "createStockMovement", "Insufficient stock for exit movement")
     ELSE Goto(w, [pc |-> "sm_update", op |-> "createStockMovement",
                   product_id |-> product_id, type |-> type, quantity |-> quantity])
  /\ UNCHANGED <<now, db>>

\* prisma.product.update with {decrement: quantity} or {increment: quantity}
createStockMovement_update(w) ==
  /\ At(w, "sm_update")
  /\ LET me == procs[w]
     IN stock' = [stock EXCEPT ![me.product_id] =
                    IF me.type = "exit" THEN @ - me.quantity ELSE @ + me.quantity]
  /\ Goto(w, [pc |-> "sm_create"])
  /\ UNCHANGED <<now, carts, cartItems, reservations, orders, orderItems, payments, movements>>

\* prisma.stockMovement.create
createStockMovement_create(w) ==
  /\ At(w, "sm_create")
  /\ LET me == procs[w]
     IN movements' = movements (+)
          SetToBag({[product_id |-> me.product_id, type |-> me.type,
                     quantity |-> me.quantity,
                     reason |-> [tag |-> "MANUAL", order_id |-> 0]]})
  /\ Finish(w, "ok")
  /\ UNCHANGED <<now, stock, carts, cartItems, reservations, orders, orderItems, payments>>

\* a cleanup whose findMany finds no row
cleanupExpiredReservations_findNone(w) ==
  /\ Idle(w)
  /\ procs' = [procs EXCEPT ![w] = IdleProc]
  /\ response' = [op |-> "cleanupExpiredReservations",
                  result |-> "No expired reservations to clean up",
                  cleaned_reservations |-> 0]
  /\ UNCHANGED <<now, db>>

\* cleanupExpiredReservations: prisma.stockReservation.findMany of the rows
\* with expires_at <= new Date(); none found, it returns at once
cleanupExpiredReservations_findMany(w) ==
  /\ Idle(w)
  /\ LET expiredReservations ==
           Rows(reservations, {r \in DOMAIN reservations : r.expires_at <= now})
     IN IF expiredReservations = EmptyBag
        THEN /\ procs' = [procs EXCEPT ![w] = IdleProc]
             /\ response' = [op |-> "cleanupExpiredReservations",
                             result |-> "No expired reservations to clean up",
                             cleaned_reservations |-> 0]
        ELSE Goto(w, [pc |-> "sweep_issue", op |-> "cleanupExpiredReservations",
                      expiredReservations |-> expiredReservations])
  /\ UNCHANGED <<now, db>>

\* the handler resumes with the rows found: it groups their quantities by
\* product and calls stockMovement.create once per product and deleteMany
\* with expires_at <= new Date(), all at once; `deleted` notes what its
\* deleteMany removed
cleanupExpiredReservations_issue(w) ==
  /\ At(w, "sweep_issue")
  /\ Goto(w, [pc |-> "sweep_all",
              movementPromises |->
                {r.product_id : r \in DOMAIN procs[w].expiredReservations},
              deletePromise |-> TRUE, deleteAt |-> now, deleted |-> EmptyBag])
  /\ UNCHANGED <<now, db>>

\* one of the prisma.stockMovement.create calls takes effect
cleanupExpiredReservations_createMovement(w, p) ==
  /\ At(w, "sweep_all")
  /\ p \in procs[w].movementPromises
  /\ LET me == procs[w]
         quantity == QtySum(Rows(me.expiredReservations,
                                 {r \in DOMAIN me.expiredReservations :
                                    r.product_id = p}))
     IN movements' = movements (+)
          SetToBag({[product_id |-> p, type |-> "entry", quantity |-> quantity,
                     reason |-> [tag |-> "RESERVATION_EXPIRED", order_id |-> 0]]})
  /\ Goto(w, [movementPromises |-> procs[w].movementPromises \ {p}])
  /\ UNCHANGED <<now, stock, carts, cartItems, reservations, orders, orderItems, payments>>

\* prisma.stockReservation.deleteMany takes effect
cleanupExpiredReservations_deleteMany(w) ==
  /\ At(w, "sweep_all")
  /\ procs[w].deletePromise
  /\ LET gone == {r \in DOMAIN reservations : r.expires_at <= procs[w].deleteAt}
     IN /\ reservations' = Rows(reservations, DOMAIN reservations \ gone)
        /\ Goto(w, [deletePromise |-> FALSE, deleted |-> Rows(reservations, gone)])
  /\ UNCHANGED <<now, stock, carts, cartItems, orders, orderItems, payments, movements>>

\* Promise.all resolves; cleaned_reservations is the number of rows found
cleanupExpiredReservations_return(w) ==
  /\ At(w, "sweep_all")
  /\ procs[w].movementPromises = {}
  /\ ~procs[w].deletePromise
  /\ procs' = [procs EXCEPT ![w] = IdleProc]
  /\ response' = [op |-> "cleanupExpiredReservations",
                  result |-> "Cleanup completed successfully",
                  cleaned_reservations |-> BagCardinality(procs[w].expiredReservations)]
  /\ UNCHANGED <<now, db>>

(* ============================ authorization =========================== *)
\* Who owns an order.  An owner is a user id or a guest id; of the two
\* shoppers the second checks out as a guest.  A column without a value is
\* null; an argument the caller leaves out is undefined.
GuestIds == {"U2"}
Null == "null"
Undefined == "undefined"
\* order_token: randomUUID() of a guest order, written as the order's own id;
\* 0 is NULL and -1 an argument left out
NoToken == 0
MissingToken == 0 - 1

OrderUserId(o) == IF orders[o].owner \in GuestIds THEN Null ELSE orders[o].owner
OrderGuestId(o) == IF orders[o].owner \in GuestIds THEN orders[o].owner ELSE Null
OrderToken(o) == IF orders[o].owner \in GuestIds THEN o ELSE NoToken

\* what callers present
UserIds == (Owners \ GuestIds) \cup {Null, Undefined}
GuestCredentials == GuestIds \cup {Null, Undefined}
OrderTokens == MissingToken..MaxOrders
\* `userId ? a : b`
Truthy(id) == id \notin {Null, Undefined}

\* getOrderById: prisma.order.findUnique, then the owner check by user id
\* or, without a user id, by order token
getOrderById(w, orderId, userId, orderToken, isAdmin) ==
  /\ Idle(w)
  /\ LET isOwner == IF Truthy(userId)
                    THEN OrderUserId(orderId) = userId
                    ELSE OrderToken(orderId) = orderToken
     IN Reply(w, "getOrderById",
              IF orderId \notin DOMAIN orders THEN "Order not found"
              ELSE IF ~isAdmin /\ ~isOwner THEN "Forbidden"
              ELSE "ok")
  /\ UNCHANGED <<now, db>>

\* getPaymentByOrderId: prisma.payment.findFirst with its order, then the
\* owner check by user id or, without a user id, by guest id
getPaymentByOrderId(w, orderId, userId, guestId, isAdmin) ==
  /\ Idle(w)
  /\ LET isOwner == IF Truthy(userId)
                    THEN OrderUserId(orderId) = userId
                    ELSE OrderGuestId(orderId) = guestId
     IN Reply(w, "getPaymentByOrderId",
              IF PaymentsOfOrder(orderId) = {} THEN "Payment not found"
              ELSE IF ~isAdmin /\ ~isOwner THEN "Forbidden"
              ELSE "ok")
  /\ UNCHANGED <<now, db>>

\* createPayment called with a guest_id: after the reads of
\* createPayment_check, an order without user_id whose guest_id is not the
\* one given is refused
createPayment_checkGuest(w, order_id, guest_id) ==
  IF /\ order_id \in DOMAIN orders
     /\ PaymentsOfOrder(order_id) = {}
     /\ ~Truthy(OrderUserId(order_id))
     /\ OrderGuestId(order_id) # guest_id
  THEN /\ Idle(w)
       /\ Len(payments) + InFlight("cp_create") < MaxPayments
       /\ Reply(w, "createPayment", "Invalid guest access to order")
       /\ UNCHANGED <<now, db>>
  ELSE createPayment_check(w, order_id)

(* ========================== products.service ========================== *)
\* updateProduct with a stock_quantity and neither a name nor category_ids:
\* prisma.product.update sets stock_quantity to parseInt(stock_quantity, 10)
updateProduct_update(w, productId, stock_quantity) ==
  /\ Idle(w)
  /\ stock' = [stock EXCEPT ![productId] = stock_quantity]
  /\ Reply(w, "updateProduct", "ok")
  /\ UNCHANGED <<now, carts, cartItems, reservations, orders, orderItems, payments, movements>>

(* =============================== the clock ============================ *)
\* time passes: for MaxTicks steps, and on until no reservation is left to
\* expire
Tick ==
  /\ \/ now < MaxTicks * TickMinutes
     \/ \E r \in DOMAIN reservations : r.expires_at > now
  /\ now' = now + TickMinutes
  /\ UNCHANGED <<db, procs, response>>

(* =========================== specifications =========================== *)
\* worker w may take a new request: it is the first idle worker (which of
\* the idle workers serves a request makes no difference), and every busy
\* worker runs one of the handlers `ops`
Beside(w, ops) ==
  /\ \A v \in Workers : v < w => ~Idle(v)
  /\ \A v \in Workers \ {w} : Idle(v) \/ procs[v].op \in ops

\* a request taken up, under a bound on the number of requests
Counted(A, max) == requests < max /\ A /\ requests' = requests + 1 /\ UNCHANGED mark
\* a step of a request already taken up
Step(A) == A /\ UNCHANGED <<requests, mark>>
\* a request taken up and noted
Observed(A, max, note) == requests < max /\ A /\ requests' = requests + 1 /\ mark' = note

CartHandlers == {"addItemToCart", "createOrderFromCart"}
ReconcileHandlers == {"processWebhook", "createStockMovement"}
TransactionIds == 0..MaxPayments

\* steps of addItemToCart
AddSteps ==
  \/ \E w \in Workers : Step(addItemToCart_createCart(w))
  \/ \E w \in Workers : Step(addItemToCart_readProduct(w))
  \/ \E w \in Workers : Step(addItemToCart_findItem(w))
  \/ \E w \in Workers : Step(addItemToCart_updateReservation(w))
  \/ \E w \in Workers : Step(addItemToCart_updateItem(w))
  \/ \E w \in Workers : Step(addItemToCart_createItem(w))
  \/ \E w \in Workers : Step(addItemToCart_createReservation(w))

\* steps of createOrderFromCart
CheckoutSteps ==
  \/ \E w \in Workers : Step(createOrderFromCart_checkItem(w))
  \/ \E w \in Workers : Step(createOrderFromCart_transaction(w))

Steps == AddSteps \/ CheckoutSteps

\* steps of createPayment
PaymentSteps ==
  \/ \E w \in Workers : Step(createPayment_create(w))
  \/ \E w \in Workers : Step(createPayment_gateway(w))

ReconcileSteps ==
  \/ PaymentSteps
  \/ \E w \in Workers : Step(processWebhook_updatePayment(w))
  \/ \E w \in Workers : Step(processWebhook_updateOrder(w))
  \/ \E w \in Workers : Step(processWebhook_items(w))
  \/ \E w \in Workers : Step(createStockMovement_update(w))
  \/ \E w \in Workers : Step(createStockMovement_create(w))

\* Requests of one shopper and of the gateway, where every busy worker runs
\* one of `together` when a webhook or a stock movement is taken up: both
\* products, any status code for any transaction id, manual exit movements.
Pipeline(together) ==
  \/ \E w \in Workers, p \in Products, q \in 1..MaxQty :
       Counted(Beside(w, {}) /\ addItemToCart_findCart(w, "U1", p, q), MaxRequests)
  \/ \E w \in Workers :
       Counted(Beside(w, {}) /\ createOrderFromCart_findCart(w, "U1"), MaxRequests)
  \/ \E w \in Workers, o \in 1..MaxOrders :
       Counted(Beside(w, {}) /\ createPayment_check(w, o), MaxRequests)
  \/ \E w \in Workers, sp \in StatePols, tx \in TransactionIds, ref \in BOOLEAN :
       Counted(Beside(w, together) /\ processWebhook_findPayment(w, sp, tx, ref),
               MaxRequests)
  \/ \E w \in Workers, p \in Products, q \in 1..MaxQty :
       Counted(Beside(w, together) /\ createStockMovement_readProduct(w, p, "exit", q),
               MaxRequests)

\* From cart to payment resolution, at most MaxRequests requests served one
\* after another: a handler runs to its end before the next is taken up.
Next == Pipeline({}) \/ Steps \/ ReconcileSteps
Spec == Init /\ [][Next]_vars

\* The same requests, where webhook deliveries and stock movements run side
\* by side.
NextRace == Pipeline(ReconcileHandlers) \/ Steps \/ ReconcileSteps
SpecRace == Init /\ [][NextRace]_vars

\* The reservation engine alone, on one product: at most MaxCartRequests
\* cart changes and checkouts of two shoppers, interleaved freely, where a
\* checkout may find its product withdrawn or its transaction failing.
NextReserve ==
  \/ \E w \in Workers, owner \in Owners, q \in 1..MaxQty :
       Counted(Beside(w, CartHandlers) /\ addItemToCart_findCart(w, owner, 1, q),
               MaxCartRequests)
  \/ \E w \in Workers, owner \in Owners :
       Counted(Beside(w, CartHandlers) /\ createOrderFromCart_findCart(w, owner),
               MaxCartRequests)
  \/ Steps
  \/ \E w \in Workers : Step(createOrderFromCart_unavailable(w))
  \/ \E w \in Workers : Step(createOrderFromCart_rollback(w))
SpecReserve == Init /\ [][NextReserve]_vars

\* available(product) at time t: stock_quantity less the reservations not
\* yet expired
Available(p, t) == stock[p] - ReservedQuantity(p, t)

\* what the active carts of an owner hold of a product at time t
HeldBy(owner, p, t) ==
  QtySum(Rows(reservations,
              {r \in ActiveReservations(p, t) : r.cart_id \in ActiveCartsOf(owner)}))

\* removeCartItem called for the item of the addItemToCart noted, which
\* returned its item as the last reply
FollowsAdd(owner, cartItemId) ==
  /\ response = [op |-> "addItemToCart", result |-> "ok"]
  /\ mark.op = "addItemToCart"
  /\ mark.owner = owner
  /\ OwnItem(owner, cartItemId)
  /\ cartItems[cartItemId].product_id = mark.product_id

ItemIds == 1..(MaxCarts * Cardinality(Products))
Quantities == (0 - 1)..MaxQty

\* Cart changes of two shoppers, one request after another, with any
\* quantity, also zero and negative: add, set quantity, remove.  An add is
\* noted with what was available and what the shopper held when it was
\* called; a remove notes whether it follows that add; an update clears the
\* note.
NextCart ==
  \/ \E w \in Workers, owner \in Owners, p \in Products, q \in Quantities :
       Observed(Beside(w, {}) /\ addItemToCart_findCart(w, owner, p, q), MaxCartRequests,
                [op |-> "addItemToCart", owner |-> owner, product_id |-> p,
                 available |-> Available(p, now), held |-> HeldBy(owner, p, now),
                 released |-> FALSE])
  \/ \E w \in Workers, owner \in Owners, i \in ItemIds, q \in Quantities :
       Observed(Beside(w, {}) /\ updateCartItem_findItem(w, owner, i, q), MaxCartRequests,
                NoMark)
  \/ \E w \in Workers, owner \in Owners, i \in ItemIds :
       Observed(Beside(w, {}) /\ removeCartItem_findItem(w, owner, i), MaxCartRequests,
                [mark EXCEPT !.released = FollowsAdd(owner, i)])
  \/ AddSteps
  \/ \E w \in Workers : Step(updateCartItem_updateItem(w))
  \/ \E w \in Workers : Step(updateCartItem_updateReservation(w))
  \/ \E w \in Workers : Step(removeCartItem_deleteItem(w))
  \/ \E w \in Workers : Step(removeCartItem_deleteReservations(w))
SpecCart == Init /\ [][NextCart]_vars

\* From cart to payment, where two createPayment calls may run side by side:
\* at most MaxCartRequests requests of one shopper, no webhook.
NextPay ==
  \/ \E w \in Workers, p \in Products, q \in 1..MaxQty :
       Counted(Beside(w, {}) /\ addItemToCart_findCart(w, "U1", p, q), MaxCartRequests)
  \/ \E w \in Workers :
       Counted(Beside(w, {}) /\ createOrderFromCart_findCart(w, "U1"), MaxCartRequests)
  \/ \E w \in Workers, o \in 1..MaxOrders :
       Counted(Beside(w, {"createPayment"}) /\ createPayment_check(w, o), MaxCartRequests)
  \/ Steps
  \/ PaymentSteps
SpecPay == Init /\ [][NextPay]_vars

\* steps of updateCartItem, removeCartItem and abandonCart
CartChangeSteps ==
  \/ \E w \in Workers : Step(updateCartItem_updateItem(w))
  \/ \E w \in Workers : Step(updateCartItem_updateReservation(w))
  \/ \E w \in Workers : Step(removeCartItem_deleteItem(w))
  \/ \E w \in Workers : Step(removeCartItem_deleteReservations(w))
  \/ \E w \in Workers : Step(abandonCart_updateCart(w))
  \/ \E w \in Workers : Step(abandonCart_deleteReservations(w))

\* steps of cleanupExpiredReservations
SweepSteps ==
  \/ \E w \in Workers : Step(cleanupExpiredReservations_issue(w))
  \/ \E w \in Workers, p \in Products : Step(cleanupExpiredReservations_createMovement(w, p))
  \/ \E w \in Workers : Step(cleanupExpiredReservations_deleteMany(w))
  \/ \E w \in Workers : Step(cleanupExpiredReservations_return(w))

\* the hourly job of server.js starts
SweepStart ==
  \E w \in Workers :
    Step(Beside(w, {"addItemToCart"}) /\ cleanupExpiredReservations_findMany(w))

\* Reservations over time, on one product: at most MaxSweepRequests cart
\* additions and checkouts of two shoppers, the clock, and the hourly
\* cleanup, which may run while an addItemToCart is in flight.  No webhook
\* arrives.
NextSweep ==
  \/ \E w \in Workers, owner \in Owners :
       Counted(Beside(w, {"cleanupExpiredReservations"})
                 /\ addItemToCart_findCart(w, owner, 1, 1),
               MaxSweepRequests)
  \/ \E w \in Workers, owner \in Owners :
       Counted(Beside(w, {}) /\ createOrderFromCart_findCart(w, owner), MaxSweepRequests)
  \/ Steps
  \/ SweepStart
  \/ SweepSteps
  \/ Step(Tick)
SpecSweep == Init /\ [][NextSweep]_vars

\* the same, where time passes, handlers resume after their awaits, and the
\* job keeps being started and run
SpecSweepLive ==
  /\ SpecSweep
  /\ WF_vars(Step(Tick))
  /\ WF_vars(Steps)
  /\ WF_vars(SweepStart \/ SweepSteps)

\* Every writer of the store, on one product and one request after another:
\* the requests of one shopper and of the gateway, the shopper's cart changes, manual entry and
\* exit movements, product updates by an admin, the clock between requests
\* and the hourly cleanup; at most MaxCartRequests requests.
NextLedger ==
  \/ \E w \in Workers, q \in 1..MaxQty :
       Counted(Beside(w, {}) /\ addItemToCart_findCart(w, "U1", 1, q), MaxCartRequests)
  \/ \E w \in Workers :
       Counted(Beside(w, {}) /\ createOrderFromCart_findCart(w, "U1"), MaxCartRequests)
  \/ \E w \in Workers, o \in 1..MaxOrders :
       Counted(Beside(w, {}) /\ createPayment_check(w, o), MaxCartRequests)
  \/ \E w \in Workers, sp \in StatePols, tx \in TransactionIds, ref \in BOOLEAN :
       Counted(Beside(w, {}) /\ processWebhook_findPayment(w, sp, tx, ref),
               MaxCartRequests)
  \/ \E w \in Workers, type \in {"entry", "exit"}, q \in 1..MaxQty :
       Counted(Beside(w, {}) /\ createStockMovement_readProduct(w, 1, type, q),
               MaxCartRequests)
  \/ \E w \in Workers, i \in ItemIds, q \in 0..MaxQty :
       Counted(Beside(w, {}) /\ updateCartItem_findItem(w, "U1", i, q), MaxCartRequests)
  \/ \E w \in Workers, i \in ItemIds :
       Counted(Beside(w, {}) /\ removeCartItem_findItem(w, "U1", i), MaxCartRequests)
  \/ \E w \in Workers :
       Counted(Beside(w, {}) /\ abandonCart_findCart(w, "U1"), MaxCartRequests)
  \/ \E w \in Workers, q \in 0..InitStock :
       Counted(Beside(w, {}) /\ updateProduct_update(w, 1, q), MaxCartRequests)
  \/ \E w \in Workers :
       Counted(Beside(w, {}) /\ cleanupExpiredReservations_findMany(w), MaxCartRequests)
  \/ Steps
  \/ ReconcileSteps
  \/ CartChangeSteps
  \/ SweepSteps
  \/ Step(AllIdle /\ Tick)
SpecLedger == Init /\ [][NextLedger]_vars

\* Orders of a user and of a guest, and who may see or pay them: at most
\* MaxCartRequests requests, one after another, of callers presenting any
\* user id, guest id and order token, admin or not.
NextAccess ==
  \/ \E w \in Workers, owner \in Owners :
       Counted(Beside(w, {}) /\ addItemToCart_findCart(w, owner, 1, 1), MaxCartRequests)
  \/ \E w \in Workers, owner \in Owners :
       Counted(Beside(w, {}) /\ createOrderFromCart_findCart(w, owner), MaxCartRequests)
  \/ \E w \in Workers, o \in 1..MaxOrders, guestId \in GuestCredentials :
       Counted(Beside(w, {}) /\ createPayment_checkGuest(w, o, guestId), MaxCartRequests)
  \/ \E w \in Workers, o \in 1..MaxOrders, userId \in UserIds,
        orderToken \in OrderTokens, isAdmin \in BOOLEAN :
       Counted(Beside(w, {}) /\ getOrderById(w, o, userId, orderToken, isAdmin),
               MaxCartRequests)
  \/ \E w \in Workers, o \in 1..MaxOrders, userId \in UserIds,
        guestId \in GuestCredentials, isAdmin \in BOOLEAN :
       Counted(Beside(w, {}) /\ getPaymentByOrderId(w, o, userId, guestId, isAdmin),
               MaxCartRequests)
  \/ Steps
  \/ PaymentSteps
SpecAccess == Init /\ [][NextAccess]_vars

\* steps of processWebhook
WebhookSteps ==
  \/ \E w \in Workers : Step(processWebhook_updatePayment(w))
  \/ \E w \in Workers : Step(processWebhook_updateOrder(w))
  \/ \E w \in Workers : Step(processWebhook_items(w))

\* Orders that outlive their reservations, on one product: two shoppers add
\* a unit and check out, payments are created and "approved" notifications
\* arrive, one request after another, while time passes between requests;
\* at most MaxRequests requests.
NextExpiry ==
  \/ \E w \in Workers, owner \in Owners :
       Counted(Beside(w, {}) /\ addItemToCart_findCart(w, owner, 1, 1), MaxRequests)
  \/ \E w \in Workers, owner \in Owners :
       Counted(Beside(w, {}) /\ createOrderFromCart_findCart(w, owner), MaxRequests)
  \/ \E w \in Workers, o \in 1..MaxOrders :
       Counted(Beside(w, {}) /\ createPayment_check(w, o), MaxRequests)
  \/ \E w \in Workers, tx \in 1..MaxPayments :
       Counted(Beside(w, {}) /\ processWebhook_findPayment(w, "4", tx, TRUE), MaxRequests)
  \/ Steps
  \/ PaymentSteps
  \/ WebhookSteps
  \/ Step(AllIdle /\ Tick)
SpecExpiry == Init /\ [][NextExpiry]_vars

(* =============================== claims =============================== *)
\* the rows of stock_reservations of the cart that became order o
ReservationsOfOrder(o) ==
  {r \in DOMAIN reservations : r.cart_id = orders[o].checkout_cart}

\* worker w ends its handler in this step
Returns(w) == ~Idle(w) /\ procs'[w] = IdleProc

\* C1: no overbooking.  Under any interleaving of reserve and checkout calls
\* of different carts on one product, the reservations active at the same
\* time never sum to more than the product's stock_quantity: no two carts
\* hold, between them, more units than there are.
C1_NoOverbooking ==
  \A p \in Products : \A r1, r2 \in ActiveReservations(p, now) :
    r1.cart_id # r2.cart_id => r1.quantity + r2.quantity <= stock[p]

\* C2: webhook idempotence.  However often the "approved" notification of an
\* order is delivered, the log holds exactly one exit movement per order
\* line (and so stock_quantity went down by the line's quantity once): never
\* more copies of a line's movement than the order has such lines.
C2_ApprovedAppliedOnce ==
  \A o \in DOMAIN orders : \A i \in DOMAIN ItemsOfOrder(o) :
    CopiesIn(OrderPaidMovement(i), movements) <= ItemsOfOrder(o)[i]

\* C3: a payment's status is terminal once it is not pending.  No step
\* changes the status of a payment that is approved, declined or error.
C3_PaymentTerminal ==
  [][\A p \in DOMAIN payments :
       payments[p].status # "pending" => payments'[p].status = payments[p].status]_vars

\* C4: stock_quantity is never negative, whatever the interleaving of exit
\* movements and approved-webhook deductions.
C4_StockNonNegative ==
  \A p \in Products : stock[p] >= 0

\* C5: an "approved" webhook for a pending payment that finds a line with
\* quantity > stock_quantity aborts the whole approval (no stock change, no
\* movement, order not paid) and leaves the payment in status error.
C5_AbortMarksError ==
  [][\A w \in Workers :
       LET me == procs[w]
       IN (/\ At(w, "wh_items")
           /\ me.seenStatus = "pending"
           /\ \E i \in DOMAIN ItemsOfOrder(me.order_id) : i.quantity > stock[i.product_id]
           /\ Returns(w))
          => /\ UNCHANGED <<stock, movements>>
             /\ orders'[me.order_id].status # "paid"
             /\ payments'[me.payment_id].status = "error"]_vars

\* C6: the approved transition is all-or-nothing.  Whenever no webhook is
\* being processed, a payment that is approved has an order that is paid, with
\* an exit movement in the log for each of its lines.
C6_ApprovedAllOrNothing ==
  (\A w \in Workers : procs[w].op # "processWebhook") =>
    \A p \in DOMAIN payments :
      payments[p].status = "approved" =>
        /\ orders[payments[p].order_id].status = "paid"
        /\ \A i \in DOMAIN ItemsOfOrder(payments[p].order_id) :
             CopiesIn(OrderPaidMovement(i), movements) >= 1

\* C7: the first "approved" webhook for a pending payment whose every line has
\* quantity <= stock_quantity sets the payment to approved, takes each line's
\* quantity from its product's stock_quantity, appends exactly one exit
\* movement per line, with the line's quantity and a reason naming the order
\* (and no other movement), and sets the order to paid.
C7_ApprovedEffect ==
  [][\A w \in Workers :
       LET me == procs[w]
           lines == ItemsOfOrder(me.order_id)
       IN /\ (/\ At(w, "wh_updatePayment")
              /\ me.state_pol = "4"
              /\ me.seenStatus = "pending"
              /\ procs'[w] # procs[w])
             => payments'[me.payment_id].status = "approved"
          /\ (/\ At(w, "wh_items")
              /\ me.seenStatus = "pending"
              /\ \A i \in DOMAIN lines : i.quantity <= stock[i.product_id]
              /\ Returns(w))
             => /\ \A p \in Products :
                     stock'[p] = stock[p]
                       - QtySum(Rows(lines, {i \in DOMAIN lines : i.product_id = p}))
                /\ \A i \in DOMAIN lines :
                     CopiesIn([product_id |-> i.product_id, type |-> "exit",
                               quantity |-> i.quantity,
                               reason |-> [tag |-> "ORDER_PAID", order_id |-> me.order_id]],
                              movements')
                       = lines[i] + CopiesIn([product_id |-> i.product_id, type |-> "exit",
                                              quantity |-> i.quantity,
                                              reason |-> [tag |-> "ORDER_PAID",
                                                          order_id |-> me.order_id]],
                                             movements)
                /\ BagCardinality(movements') = BagCardinality(movements) + BagCardinality(lines)
                /\ payments'[me.payment_id].status = "approved"
                /\ orders'[me.order_id].status = "paid"
                /\ response'.result = "Webhook processed successfully"]_vars

\* C7's case: an order of one unit of product 1 was approved from pending;
\* the product went from InitStock to InitStock - 1, one movement naming the
\* order was logged and the webhook answered success.
C7_Witness ==
  /\ response = [op |-> "processWebhook", result |-> "Webhook processed successfully"]
  /\ \E p \in DOMAIN payments :
       /\ payments[p].status = "approved"
       /\ orders[payments[p].order_id].status = "paid"
       /\ OrderedQuantity(payments[p].order_id, 1) = 1
       /\ movements = SetToBag({[product_id |-> 1, type |-> "exit", quantity |-> 1,
                                 reason |-> [tag |-> "ORDER_PAID",
                                             order_id |-> payments[p].order_id]]})
  /\ stock[1] = InitStock - 1

\* C8: once an "approved" webhook for an order has been processed (the order
\* is paid), no reservation of the cart its checkout ordered remains, also
\* when the owner has several carts in status ordered.
C8_PaidOrderHoldsNothing ==
  \A o \in DOMAIN orders :
    orders[o].status = "paid" => ReservationsOfOrder(o) = {}

\* C9: a webhook that maps a pending payment to declined or error releases
\* every reservation of the order's cart, changes no stock_quantity, appends
\* no movement and sets the order to cancelled.
C9_DeclineReleases ==
  [][\A w \in Workers :
       LET me == procs[w]
       IN (/\ At(w, "wh_updateOrder")
           /\ me.state_pol \notin {"4", "7"}
           /\ me.seenStatus = "pending"
           /\ Returns(w))
          => /\ UNCHANGED <<stock, movements>>
             /\ orders'[me.order_id].status = "cancelled"
             /\ \A r \in DOMAIN reservations' :
                  r.cart_id # orders[me.order_id].checkout_cart]_vars

\* C10: an order's status changes only from pending.  No step sets a paid
\* order to cancelled or a cancelled order to paid.
C10_OrderStatusFromPendingOnly ==
  [][\A o \in DOMAIN orders :
       orders[o].status # "pending" => orders'[o].status = orders[o].status]_vars

\* C11: a webhook whose transaction id matches no stored payment fails with
\* 'Payment not found' and leaves every payment, order, stock_quantity,
\* movement and reservation as it was.
C11_UnknownTransactionFails ==
  [][\A w \in Workers, sp \in StatePols, tx \in TransactionIds \ {NoTx}, ref \in BOOLEAN :
       (/\ \A p \in DOMAIN payments : payments[p].payu_transaction_id # tx
        /\ processWebhook_findPayment(w, sp, tx, ref))
       => /\ response' = [op |-> "processWebhook", result |-> "Payment not found"]
          /\ Idle(w)'
          /\ UNCHANGED db]_vars

\* C11's case: a payment is stored under one transaction id, and a webhook
\* carrying another one was answered 'Payment not found'.
C11_Witness ==
  /\ response = [op |-> "processWebhook", result |-> "Payment not found"]
  /\ \E p \in DOMAIN payments : payments[p].payu_transaction_id # NoTx

\* C13: with nothing else in flight, a checkout of an active cart with items
\* fails with 'Insufficient stock' exactly when some line asks for more than
\* stock_quantity minus the active reservations of its product; otherwise it
\* creates a pending order, sets the cart to ordered and adds one reservation
\* per line, of the line's quantity, expiring 15 minutes later.
C13_CheckoutIffAvailable ==
  [][\A w \in Workers :
       LET me == procs[w]
           lines == CartLines(me.cart_id, 1)
           short == \E i \in DOMAIN lines :
                      lines[i].quantity >
                        stock[lines[i].product_id]
                          - QtySum(Rows(reservations,
                                        {r \in DOMAIN reservations :
                                           /\ r.product_id = lines[i].product_id
                                           /\ r.expires_at > now}))
       IN (me.op = "createOrderFromCart" /\ Returns(w))
          => /\ (response'.result = "Insufficient stock") <=> short
             /\ ~short =>
                  /\ response'.result = "ok"
                  /\ Len(orders') = Len(orders) + 1
                  /\ orders'[Len(orders')].status = "pending"
                  /\ carts[me.cart_id].status = "active"
                  /\ carts'[me.cart_id].status = "ordered"
                  /\ \A i \in DOMAIN lines :
                       LET row == [cart_id |-> me.cart_id,
                                   product_id |-> lines[i].product_id,
                                   quantity |-> lines[i].quantity,
                                   expires_at |-> now + 15]
                       IN CopiesIn(row, reservations') = CopiesIn(row, reservations) + 1
                  /\ BagCardinality(reservations') = BagCardinality(reservations) + Len(lines)]_vars

\* C13's cases: one checkout went through (its cart is ordered and holds a
\* reservation for 15 minutes) and a later one was refused for want of stock.
C13_Witness ==
  /\ response = [op |-> "createOrderFromCart", result |-> "Insufficient stock"]
  /\ Len(orders) = 1
  /\ \E r \in DOMAIN reservations :
       /\ r.cart_id = orders[1].checkout_cart
       /\ r.expires_at = now + 15
       /\ carts[r.cart_id].status = "ordered"
  /\ \E c \in DOMAIN carts : carts[c].status = "active" /\ CartLines(c, 1) # <<>>

\* C14: in every reachable state there is at most one active reservation row
\* per (cart_id, product_id).
C14_OneReservationPerCartProduct ==
  \A c \in DOMAIN carts : \A p \in Products :
    BagCardinality(Rows(reservations,
                        {r \in ActiveReservations(p, now) : r.cart_id = c})) <= 1

\* C12: checkout is all-or-nothing.  A createOrderFromCart that fails (empty
\* cart, product no longer available, insufficient stock, a failing
\* transaction) has created no order, no order item and no reservation, and
\* has not changed the status of any cart.
C12_CheckoutAllOrNothing ==
  [][((/\ response'.op = "createOrderFromCart"
       /\ response'.result # "ok")
      /\ \/ \E w \in Workers : procs[w].op = "createOrderFromCart" /\ Returns(w)
         \/ requests' # requests /\ procs' = procs)
     => UNCHANGED <<orders, orderItems, reservations, carts, cartItems, stock>>]_vars

\* C12's case: the transaction of a checkout failed; the cart is active with
\* its line, holds only the reservation made when the item was added, and
\* there is no order.
C12_Witness ==
  /\ response = [op |-> "createOrderFromCart", result |-> "Transaction failed"]
  /\ orders = <<>>
  /\ orderItems = EmptyBag
  /\ \E c \in DOMAIN carts :
       /\ carts[c].status = "active"
       /\ CartLines(c, 1) # <<>>
       /\ \A r \in DOMAIN reservations : r.cart_id = c => r.expires_at = now + 30


\* C15: a cart quantity change that leaves a quantity of zero or less for
\* (cart, product) acts as a release: the call succeeds and no reservation of
\* (cart, product) is left; and no stored reservation ever has a quantity of
\* zero or less.
C15_NonPositiveIsRelease ==
  [][/\ \A r \in DOMAIN reservations' : r.quantity > 0
     /\ \A w \in Workers :
          LET me == procs[w]
          IN (/\ At(w, "add_item")
              /\ Returns(w)
              /\ \E i \in ItemsOf(me.cart_id, me.product_id) :
                   cartItems[i].quantity + me.quantity <= 0)
             => /\ response'.result = "ok"
                /\ ~ \E r \in DOMAIN reservations' :
                       r.cart_id = me.cart_id /\ r.product_id = me.product_id]_vars


\* the removeCartItem that follows a successful addItemToCart returns
RoundTrip(w) == At(w, "rm_reservations") /\ Returns(w) /\ mark.released

\* C16 as stated: round trip.  Whenever addItemToCart(cart, product, q)
\* succeeded and removeCartItem of that item follows with no other operation
\* in between, available(product) is again what it was before the add.
C16_RoundTripRestores ==
  [][\A w \in Workers :
       RoundTrip(w) => Available(mark.product_id, now)' = mark.available]_vars

\* C16: round trip from a cart that held nothing of the product.  Whenever
\* addItemToCart(cart, product, q) succeeded for a cart with no reservation
\* of the product and removeCartItem of that item follows with no other
\* operation in between, available(product) is again what it was before the
\* add.
C16_RoundTripFromNothingHeld ==
  [][\A w \in Workers :
       (RoundTrip(w) /\ mark.held = 0)
         => Available(mark.product_id, now)' = mark.available]_vars

C16_Witness ==
  /\ mark.released
  /\ mark.held = 0
  /\ response = [op |-> "removeCartItem", result |-> "ok"]
  /\ mark.available = InitStock
  /\ Available(mark.product_id, now) = InitStock


\* the rows a cleanup found expired that its deleteMany did not remove and
\* that stand, at time t, with an expires_at still to come: rows an
\* addItemToCart refreshed after the cleanup read them
RefreshedUnder(w, t) ==
  LET me == procs[w]
  IN {s \in DOMAIN me.expiredReservations :
        /\ CopiesIn(s, me.deleted) < CopiesIn(s, me.expiredReservations)
        /\ \E r \in DOMAIN reservations :
             /\ r.cart_id = s.cart_id
             /\ r.product_id = s.product_id
             /\ r.expires_at > t}

\* C17: sweep race safety.  The deleteMany of a cleanup removes no row whose
\* expires_at is still to come, so a reservation refreshed by a concurrent
\* addItemToCart after the cleanup read it is kept; and the cleanup records
\* no effect for such a row: cleaned_reservations does not count it.
C17_SweepRaceSafety ==
  [][\A w \in Workers :
       /\ (At(w, "sweep_all") /\ procs[w].deletePromise
             /\ procs'[w].pc = "sweep_all" /\ ~procs'[w].deletePromise)
          => \A r \in DOMAIN reservations :
               r.expires_at > now => CopiesIn(r, reservations') = CopiesIn(r, reservations)
       /\ (At(w, "sweep_all") /\ Returns(w))
          => response'.cleaned_reservations
               <= BagCardinality(procs[w].expiredReservations)
                    - Cardinality(RefreshedUnder(w, now))]_vars


\* C18: the frame of the sweep.  Every step of cleanupExpiredReservations
\* leaves each product's stock_quantity, the stock-movement log and every
\* cart, cart item, order and payment as they were; the rows it removes from
\* stock_reservations all have expires_at <= now, so that available(P) is
\* what it was without them.
C18_SweepOnlyDeletesExpired ==
  [][(SweepStart \/ SweepSteps)
       => /\ stock' = stock
          /\ movements' = movements
          /\ carts' = carts
          /\ cartItems' = cartItems
          /\ orders' = orders
          /\ orderItems' = orderItems
          /\ payments' = payments
          /\ \A r \in DOMAIN reservations :
               \/ CopiesIn(r, reservations') = CopiesIn(r, reservations)
               \/ r.expires_at <= now /\ CopiesIn(r, reservations') = 0
          /\ DOMAIN reservations' \subseteq DOMAIN reservations
          /\ \A p \in Products : Available(p, now)' = Available(p, now)]_vars


\* cart c was checked out and a reservation of it is still stored
HeldForOrder(c) ==
  /\ c \in DOMAIN carts
  /\ carts[c].status = "ordered"
  /\ \E r \in DOMAIN reservations : r.cart_id = c

\* C19: stock is never held forever.  With no webhook arriving, a
\* reservation is counted by the availability checks only while its
\* expires_at is still to come; and when time passes and the cleanup keeps
\* running, the reservations of every checked-out cart are in the end deleted.
C19_NeverHeldForever ==
  /\ [][\A w \in Workers :
          LET me == procs[w]
              counted(p) == QtySum(Rows(reservations,
                                        {r \in DOMAIN reservations :
                                           r.product_id = p /\ r.expires_at > now}))
          IN /\ (At(w, "add_product") /\ procs'[w].pc = "add_item")
                => procs'[w].reservedQuantity = counted(me.product_id)
             /\ (At(w, "co_check") /\ procs'[w] # me /\ procs'[w].pc # "idle")
                => Head(me.todo).quantity
                     <= stock[Head(me.todo).product_id]
                          - counted(Head(me.todo).product_id)]_vars
  /\ \A c \in 1..MaxCarts : HeldForOrder(c) ~> ~HeldForOrder(c)

C19_Witness ==
  /\ \E c \in DOMAIN carts : carts[c].status = "ordered"
  /\ Len(orders) > 0
  /\ reservations = EmptyBag
  /\ response.op = "cleanupExpiredReservations"
  /\ response.cleaned_reservations > 0


\* C20: every order has at most one payment, also after two createPayment
\* calls for the same order that run side by side: a createPayment that
\* would add a second payment to its order fails with 'Order already has a
\* payment' and creates no row.
C20_OnePaymentPerOrder ==
  [][/\ \A o \in DOMAIN orders' : Cardinality(PaymentsOfOrder(o)') <= 1
     /\ \A w \in Workers :
          (/\ At(w, "cp_create")
           /\ procs'[w] # procs[w]
           /\ PaymentsOfOrder(procs[w].order_id) # {})
          => /\ payments' = payments
             /\ response'.result = "Order already has a payment"]_vars


\* C21: reservations are soft holds.  A step changes a product's
\* stock_quantity only when it is the product.update of a manual stock
\* movement or the exit of an approved webhook: no cart change, checkout,
\* release, abandonment, declined or error webhook, cleanup or any other
\* handler writes stock_quantity.
C21_StockChangesOnlyByLedger ==
  [][stock' # stock
       => \E w \in Workers :
            \/ At(w, "sm_update") /\ procs'[w].pc = "sm_create"
            \/ At(w, "wh_items") /\ procs[w].state_pol = "4" /\ Returns(w)]_vars


\* C22: a guest order and its payment are reached only with the order's
\* order_token.  A caller who is no admin and does not present the token of
\* guest order o is refused with 'Forbidden' by getOrderById; and, as neither
\* getPaymentByOrderId nor createPayment takes a token, such a caller is
\* refused with 'Forbidden' by them whatever guest id is presented.
C22_GuestAccessByTokenOnly ==
  [][\A w \in Workers, o \in DOMAIN orders :
       orders[o].owner \in GuestIds
       => /\ \A userId \in UserIds, orderToken \in OrderTokens :
               (getOrderById(w, o, userId, orderToken, FALSE) /\ orderToken # OrderToken(o))
               => response'.result = "Forbidden"
          /\ \A userId \in UserIds, guestId \in GuestCredentials :
               (getPaymentByOrderId(w, o, userId, guestId, FALSE)
                  /\ PaymentsOfOrder(o) # {})
               => response'.result = "Forbidden"
          /\ \A guestId \in GuestCredentials :
               (createPayment_checkGuest(w, o, guestId) /\ PaymentsOfOrder(o) = {})
               => response'.result = "Forbidden"]_vars


\* what the carts other than c hold of product p, in reservations not yet
\* expired at time t
HeldByOthers(c, p, t) ==
  QtySum(Rows(reservations, {r \in ActiveReservations(p, t) : r.cart_id # c}))

\* C23: a quantity change is checked against the stock less what other
\* carts hold.  When addItemToCart finds the product already in the cart
\* (and what it read of the product still stands), it goes on if and only
\* if the new quantity is at most stock_quantity minus the active
\* reservations of other carts, whether the cart's own reservation is still
\* active or has expired; and when it returns the item, the cart has exactly
\* one active reservation of the product, of the new quantity.
C23_ChangeAgainstOthersOnly ==
  [][\A w \in Workers :
       LET me == procs[w]
       IN /\ (/\ At(w, "add_item")
              /\ procs'[w] # me
              /\ ItemsOf(me.cart_id, me.product_id) # {}
              /\ me.stock_quantity = stock[me.product_id]
              /\ me.reservedQuantity = ReservedQuantity(me.product_id, now)
              /\ \A i \in ItemsOf(me.cart_id, me.product_id) :
                   cartItems[i].quantity + me.quantity > 0)
             => \A i \in ItemsOf(me.cart_id, me.product_id) :
                  (procs'[w].pc = "add_updateReservation")
                    <=> (cartItems[i].quantity + me.quantity
                           <= stock[me.product_id]
                                - HeldByOthers(me.cart_id, me.product_id, now))
          /\ (/\ At(w, "add_updateItem")
              /\ Returns(w)
              /\ response'.result = "ok"
              /\ now < me.expiresAt)
             => LET own == {r \in ActiveReservations(me.product_id, now) :
                              r.cart_id = me.cart_id}
                IN /\ BagCardinality(Rows(reservations', own)) = 1
                   /\ \A r \in own : r.quantity = me.newQuantity]_vars


\* the quantities of the stock movements of product p of one type
MovedQuantity(p, type) ==
  QtySum(Rows(movements, {m \in DOMAIN movements : m.product_id = p /\ m.type = type}))

\* C24: ledger consistency.  With no handler in flight, every product's
\* stock_quantity is its initial quantity plus its entry movements minus its
\* exit movements: no movement row without its change of stock_quantity and
\* no change without its row.
C24_LedgerConsistency ==
  AllIdle =>
    \A p \in Products :
      stock[p] = InitStock + MovedQuantity(p, "entry") - MovedQuantity(p, "exit")


\* C25: the count of the sweep.  When cleanupExpiredReservations returns
\* after its deleteMany, cleaned_reservations is the number of rows that
\* deleteMany removed, whatever expired or was refreshed between its
\* findMany and its deleteMany.
C25_CountIsRowsDeleted ==
  [][\A w \in Workers :
       (At(w, "sweep_all") /\ Returns(w))
       => response'.cleaned_reservations = BagCardinality(procs[w].deleted)]_vars


\* how many exit movements were written for order o
PaidMovements(o) ==
  BagCardinality(Rows(movements, {m \in DOMAIN movements :
                                    m.reason = [tag |-> "ORDER_PAID", order_id |-> o]}))

\* C26: with no operation in flight, the reservations of a product that
\* have not expired never sum to more than its stock_quantity (available is
\* not negative), also after an approved webhook for an order whose own
\* reservation had expired, where no order's approval was applied more
\* than once.
C26_AvailableNonNegative ==
  (AllIdle /\ \A o \in DOMAIN orders : PaidMovements(o) <= 1)
    => \A p \in Products : Available(p, now) >= 0


\* C27: the frame of a webhook on reservations.  A step of processWebhook
\* for order O removes no reservation of a cart other than the cart O was
\* created from: the rows of the owner's other ordered carts and of every
\* other owner's carts stay as they are.
C27_WebhookKeepsOtherCarts ==
  [][\A w \in Workers :
       LET me == procs[w]
       IN (me.op = "processWebhook" /\ procs'[w] # me /\ me.pc # "wh_updatePayment")
          => \A r \in DOMAIN reservations :
               r.cart_id # orders[me.order_id].checkout_cart
               => CopiesIn(r, reservations') = CopiesIn(r, reservations)]_vars


FailedAtGateway(p) ==
  payments[p].status = "error" /\ payments[p].payu_transaction_id = NoTx

\* C29: a payment that failed at the gateway.  The payment is left with
\* status error and no transaction id and its order pending; from then on
\* the row stays as it is, it stays the only payment of its order, every
\* createPayment for that order is rejected with 'Order already has a
\* payment', and the order is never paid.
C29_FailedPaymentBlocksOrder ==
  [][/\ \A w \in Workers :
          (At(w, "cp_gateway") /\ response'.result = "Failed to create PayU transaction"
             /\ Returns(w))
          => /\ payments'[procs[w].payment_id].status = "error"
             /\ payments'[procs[w].payment_id].payu_transaction_id = NoTx
             /\ orders'[procs[w].order_id].status = "pending"
     /\ \A p \in DOMAIN payments :
          FailedAtGateway(p)
          => LET o == payments[p].order_id
             IN /\ payments'[p] = payments[p]
                /\ orders'[o].status = "pending"
                /\ {x \in DOMAIN payments' : payments'[x].order_id = o} = {p}
                /\ \A w \in Workers :
                     (Idle(w) /\ requests' # requests /\ createPayment_check(w, o))
                     => response' = [op |-> "createPayment",
                                     result |-> "Order already has a payment"]]_vars

C29_Witness ==
  /\ response = [op |-> "createPayment", result |-> "Order already has a payment"]
  /\ Len(payments) = 1
  /\ FailedAtGateway(1)
  /\ orders[payments[1].order_id].status = "pending"


\* C30: each owner has at most one cart in status active, in every state
\* and under any interleaving of addItemToCart (getOrCreateActiveCart) and
\* checkout calls of that owner.
C30_OneActiveCartPerOwner ==
  \A owner \in Owners : Cardinality(ActiveCartsOf(owner)) <= 1

====
